---- MODULE Spec2Model ----
(***************************************************************************)
(* Model of the off-screen frame bridge of browser/src/main.rs: the        *)
(* start-up sequence of try_main, the windowless render handler            *)
(* (MyRenderHandler: view_size and buffer behind two mutexes), the engine  *)
(* callbacks on_paint / get_view_rect / on_before_close, the UI side       *)
(* (WindowDemo::render, the window-bounds observer) and the Quit action.   *)
(***************************************************************************)
EXTENDS Integers, Sequences, FiniteSets, TLC

\* ------------------------------------------------------------ bounds
\* Largest fill value of a delivered frame (frames differ in their bytes).
MaxFill == 1
\* Largest exit code the engine hands to a subprocess.
MaxExitCode == 1
\* How many Quit key presses the user makes.
MaxQuitPresses == 2

\* ------------------------------------------------------- program constants
\* MyRenderHandler::new: the initial view size.
DefaultViewWidth == 1024
DefaultViewHeight == 768
\* try_main: the bounds the window is opened with.
InitialWindowWidth == 800
InitialWindowHeight == 600
\* i32::MAX, the largest value `as i32` leaves unchanged.
I32Max == 2147483647

\* Option<T>: None, Some(x).
None == <<>>
Some(x) == <<x>>

\* (width, height) pairs the engine reports with a paint delivery.
PaintDims == {<<0, 1>>, <<1, 1>>, <<2, 1>>}
\* Bounds the window manager moves the window to.
WindowSizes == {<<640, 480>>}
\* PaintElementType
ElementTypes == {"View", "Popup"}
\* shared_handle: *mut c_void
SharedHandles == {"null", "handle"}

\* The dirty-rectangle lists the engine supplies with a paint delivery.
DirtyRectLists == {<<>>, <<[x |-> 0, y |-> 0, width |-> 1, height |-> 1]>>}

\* A delivered pixel buffer: len bytes, told apart by fill.
MkFrame(len, fill) == [i \in 1..len |-> fill + i]

\* The byte lengths delivered with a (w, h) paint: the well-formed
\* w*h*4 and a malformed one.
PaintLens(w, h) == {w * h * 4, w * h * 4 + 1}

\* `n as i32` for a usize n below 2^32.
AsI32(n) == IF n <= I32Max THEN n ELSE n - I32Max - I32Max - 2

Size(w, h) == [width |-> w, height |-> h]

Rect(px, py, w, h) == [x |-> px, y |-> py, width |-> w, height |-> h]

NoCall == [element_type |-> "None", dirty_rects |-> <<>>, buffer |-> <<>>,
           width |-> 0, height |-> 0]

VARIABLES
    mainPc,          \* position of the main thread in main / try_main
    subprocessCode,  \* Context::is_cef_subprocess(): None or Some(code)
    cefContext,      \* the engine context: none, constructed, initialized, shutdown
    shutdownCalls,   \* how many times Context::shutdown was called
    browserState,    \* the BrowserState global: browser, context, image
    windowOpen,      \* cx.open_window has run
    windowBounds,    \* window.bounds()
    boundsObserved,  \* the observe_window_bounds callback has run
    displayed,       \* what WindowDemo::render last put in the content area
    quitBound,       \* cx.on_action(Quit) / bind_keys have run
    quitPresses,     \* Quit requests the user has issued
    loopQuit,        \* cef_quit_message_loop has been called
    quitCalls,       \* how many times cx.quit() was called
    cefBrowser,      \* the engine's browser instance: none, created, closed
    processExit,     \* None while the process lives, else its exit code
    view_size,       \* MyRenderHandler.view_size
    buffer,          \* MyRenderHandler.buffer
    bufferLock,      \* holder of the buffer mutex
    sizeLock,        \* holder of the view_size mutex
    paintPc,         \* position of the engine thread inside on_paint / on_accelerated_paint
    call,            \* arguments of the on_paint call in flight
    lastRect,        \* the Rect last returned by get_view_rect
    paintEntry       \* history: the handler's fields when the on_paint in flight began

vars == <<mainPc, subprocessCode, cefContext, shutdownCalls, browserState,
          windowOpen, windowBounds, boundsObserved, displayed, quitBound,
          quitPresses, loopQuit, quitCalls, cefBrowser, processExit, view_size, buffer, bufferLock,
          sizeLock, paintPc, call, lastRect, paintEntry>>

mainVars == <<mainPc, subprocessCode, cefContext, shutdownCalls, browserState,
              windowOpen, quitBound, quitPresses, loopQuit, quitCalls,
              cefBrowser, processExit>>

uiVars == <<windowBounds, boundsObserved, displayed>>

handlerVars == <<view_size, buffer, bufferLock, sizeLock, paintPc, call, lastRect,
                 paintEntry>>

\* MyRenderHandler::new
MyRenderHandlerNew ==
    [view_size |-> Size(DefaultViewWidth, DefaultViewHeight), buffer |-> <<>>]

Init ==
    /\ mainPc = "start"
    /\ subprocessCode \in {None} \cup {Some(c) : c \in 0..MaxExitCode}
    /\ cefContext = "none"
    /\ shutdownCalls = 0
    /\ browserState = [browser |-> None, context |-> None, image |-> None]
    /\ windowOpen = FALSE
    /\ windowBounds = None
    /\ boundsObserved = FALSE
    /\ displayed = None
    /\ quitBound = FALSE
    /\ quitPresses = 0
    /\ loopQuit = FALSE
    /\ quitCalls = 0
    /\ cefBrowser = "none"
    /\ processExit = None
    /\ view_size = MyRenderHandlerNew.view_size
    /\ buffer = MyRenderHandlerNew.buffer
    /\ bufferLock = "free"
    /\ sizeLock = "free"
    /\ paintPc = "idle"
    /\ call = NoCall
    /\ lastRect = None
    /\ paintEntry = None

\* ------------------------------------------------------------ start-up
\* try_main: cx.set_global(BrowserState { None, None, None }).
SetGlobal ==
    /\ mainPc = "start"
    /\ browserState' = [browser |-> None, context |-> None, image |-> None]
    /\ mainPc' = "settings"
    /\ UNCHANGED <<subprocessCode, cefContext, shutdownCalls, windowOpen, quitBound,
                   quitPresses, loopQuit, quitCalls, cefBrowser, processExit>>
    /\ UNCHANGED <<uiVars, handlerVars>>

\* initialize_cef: get_root_cache_dir()?, MainArgs::new()?, root_cache_path()?
\* each either succeeds or returns the error to try_main, which prints it
\* and returns from the closure.
InitializeCefSettings ==
    /\ mainPc = "settings"
    /\ \E ok \in BOOLEAN :
          mainPc' = IF ok THEN "context_new" ELSE "init_failed"
    /\ UNCHANGED <<subprocessCode, cefContext, shutdownCalls, browserState, windowOpen,
                   quitBound, quitPresses, loopQuit, quitCalls, cefBrowser,
                   processExit>>
    /\ UNCHANGED <<uiVars, handlerVars>>

\* initialize_cef: Context::new(main_args, settings, Some(app)).
ContextNew ==
    /\ mainPc = "context_new"
    /\ cefContext' = "constructed"
    /\ mainPc' = "subprocess_check"
    /\ UNCHANGED <<subprocessCode, shutdownCalls, browserState, windowOpen, quitBound,
                   quitPresses, loopQuit, quitCalls, cefBrowser, processExit>>
    /\ UNCHANGED <<uiVars, handlerVars>>

\* initialize_cef without the subprocess check: start-up goes on to
\* context.initialize() whatever is_cef_subprocess() says.
IsCefSubprocessIgnored ==
    /\ mainPc = "subprocess_check"
    /\ mainPc' = "initialize"
    /\ UNCHANGED <<subprocessCode, cefContext, shutdownCalls, browserState, windowOpen,
                   quitBound, quitPresses, loopQuit, quitCalls, cefBrowser,
                   processExit>>
    /\ UNCHANGED <<uiVars, handlerVars>>

\* initialize_cef: if let Some(code) = context.is_cef_subprocess() { exit(code) }.
IsCefSubprocess ==
    /\ mainPc = "subprocess_check"
    /\ IF subprocessCode # None
          THEN /\ processExit' = subprocessCode
               /\ mainPc' = "exited"
          ELSE /\ processExit' = processExit
               /\ mainPc' = "initialize"
    /\ UNCHANGED <<subprocessCode, cefContext, shutdownCalls, browserState, windowOpen,
                   quitBound, quitPresses, loopQuit, quitCalls, cefBrowser>>
    /\ UNCHANGED <<uiVars, handlerVars>>

\* initialize_cef returning the context without context.initialize().
ContextInitializeSkipped ==
    /\ mainPc = "initialize"
    /\ mainPc' = "create_browser"
    /\ UNCHANGED <<subprocessCode, cefContext, shutdownCalls, browserState, windowOpen,
                   quitBound, quitPresses, loopQuit, quitCalls, cefBrowser, processExit>>
    /\ UNCHANGED <<uiVars, handlerVars>>

\* initialize_cef: context.initialize()?.
ContextInitialize ==
    /\ mainPc = "initialize"
    /\ \E ok \in BOOLEAN :
          IF ok
            THEN /\ cefContext' = "initialized"
                 /\ mainPc' = "create_browser"
            ELSE /\ cefContext' = cefContext
                 /\ mainPc' = "init_failed"
    /\ UNCHANGED <<subprocessCode, shutdownCalls, browserState, windowOpen, quitBound,
                   quitPresses, loopQuit, quitCalls, cefBrowser, processExit>>
    /\ UNCHANGED <<uiVars, handlerVars>>

\* create_browser: Client::new(MyClientCallbacks), create_browser_sync; the
\* client's get_render_handler builds MyRenderHandler::new().
CreateBrowser ==
    /\ mainPc = "create_browser"
    /\ cefBrowser' = "created"
    /\ view_size' = MyRenderHandlerNew.view_size
    /\ buffer' = MyRenderHandlerNew.buffer
    /\ mainPc' = "store_state"
    /\ UNCHANGED <<subprocessCode, cefContext, shutdownCalls, browserState, windowOpen,
                   quitBound, quitPresses, loopQuit, quitCalls, processExit>>
    /\ UNCHANGED <<uiVars, bufferLock, sizeLock, paintPc, call, lastRect, paintEntry>>

\* initialize_browser_in_context: state.context = Some(context);
\* state.browser = Some(browser).
StoreState ==
    /\ mainPc = "store_state"
    /\ browserState' = [browserState EXCEPT !.context = Some("Context"), !.browser = Some("Browser")]
    /\ mainPc' = "open_window"
    /\ UNCHANGED <<subprocessCode, cefContext, shutdownCalls, windowOpen, quitBound,
                   quitPresses, loopQuit, quitCalls, cefBrowser, processExit>>
    /\ UNCHANGED <<uiVars, handlerVars>>

\* try_main: cx.open_window(...) with 800x600 bounds, cx.activate(true).
OpenWindow ==
    /\ mainPc = "open_window"
    /\ windowOpen' = TRUE
    /\ windowBounds' = Some(Size(InitialWindowWidth, InitialWindowHeight))
    /\ mainPc' = "run_message_loop"
    /\ UNCHANGED <<subprocessCode, cefContext, shutdownCalls, browserState, quitBound,
                   quitPresses, loopQuit, quitCalls, cefBrowser, processExit>>
    /\ UNCHANGED <<boundsObserved, displayed, handlerVars>>

\* run_message_loop returning at once, without waiting for
\* cef_quit_message_loop.
RunMessageLoopNoWait ==
    /\ mainPc = "run_message_loop"
    /\ mainPc' = "bind_quit"
    /\ UNCHANGED <<subprocessCode, cefContext, shutdownCalls, browserState, windowOpen,
                   quitBound, quitPresses, loopQuit, quitCalls, cefBrowser,
                   processExit>>
    /\ UNCHANGED <<uiVars, handlerVars>>

\* try_main: if let Some(context) = state.context.as_ref() { run_message_loop() }:
\* the call blocks until cef_quit_message_loop has been called.
RunMessageLoop ==
    /\ mainPc = "run_message_loop"
    /\ IF browserState.context = None
          THEN mainPc' = "bind_quit"
          ELSE /\ loopQuit
               /\ mainPc' = "bind_quit"
    /\ UNCHANGED <<subprocessCode, cefContext, shutdownCalls, browserState, windowOpen,
                   quitBound, quitPresses, loopQuit, quitCalls, cefBrowser,
                   processExit>>
    /\ UNCHANGED <<uiVars, handlerVars>>

\* MyLifeSpanHandlerCallbacks::on_before_close: cef_quit_message_loop().
OnBeforeClose ==
    /\ processExit = None
    /\ cefBrowser = "created"
    /\ mainPc = "run_message_loop"
    /\ cefBrowser' = "closed"
    /\ loopQuit' = TRUE
    /\ UNCHANGED <<mainPc, subprocessCode, cefContext, shutdownCalls, browserState,
                   windowOpen, quitBound, quitPresses, quitCalls, processExit>>
    /\ UNCHANGED <<uiVars, handlerVars>>

\* try_main: cx.on_action(|_: &Quit, cx| ...); cx.bind_keys([cmd-q -> Quit]);
\* the closure returns and the application's event loop goes on.
BindQuit ==
    /\ mainPc = "bind_quit"
    /\ quitBound' = TRUE
    /\ mainPc' = "app_running"
    /\ UNCHANGED <<subprocessCode, cefContext, shutdownCalls, browserState, windowOpen,
                   quitPresses, loopQuit, quitCalls, cefBrowser, processExit>>
    /\ UNCHANGED <<uiVars, handlerVars>>

\* The Quit action handler with state.context.as_ref() in place of take():
\* the context stays in the global and is shut down on every request.
QuitActionKeepsContext ==
    /\ processExit = None
    /\ quitBound
    /\ quitPresses < MaxQuitPresses
    /\ quitPresses' = quitPresses + 1
    /\ IF browserState.context # None
          THEN /\ shutdownCalls' = shutdownCalls + 1
               /\ cefContext' = "shutdown"
          ELSE /\ shutdownCalls' = shutdownCalls
               /\ cefContext' = cefContext
    /\ browserState' = browserState
    /\ quitCalls' = quitCalls + 1
    /\ UNCHANGED <<mainPc, subprocessCode, windowOpen, quitBound, loopQuit, cefBrowser,
                   processExit>>
    /\ UNCHANGED <<uiVars, handlerVars>>

\* The Quit action handler: if let Some(context) = state.context.take()
\* { context.shutdown() }; cx.quit().
QuitAction ==
    /\ processExit = None
    /\ quitBound
    /\ quitPresses < MaxQuitPresses
    /\ quitPresses' = quitPresses + 1
    /\ IF browserState.context # None
          THEN /\ shutdownCalls' = shutdownCalls + 1
               /\ cefContext' = "shutdown"
          ELSE /\ shutdownCalls' = shutdownCalls
               /\ cefContext' = cefContext
    /\ browserState' = [browserState EXCEPT !.context = None]
    /\ quitCalls' = quitCalls + 1
    /\ UNCHANGED <<mainPc, subprocessCode, windowOpen, quitBound, loopQuit, cefBrowser,
                   processExit>>
    /\ UNCHANGED <<uiVars, handlerVars>>

\* The user presses cmd-q while no key binding for Quit exists: the
\* keystroke matches nothing and no handler runs.
QuitUnbound ==
    /\ processExit = None
    /\ windowOpen
    /\ ~quitBound
    /\ quitPresses < MaxQuitPresses
    /\ quitPresses' = quitPresses + 1
    /\ UNCHANGED <<mainPc, subprocessCode, cefContext, shutdownCalls, browserState,
                   windowOpen, quitBound, loopQuit, quitCalls, cefBrowser,
                   processExit>>
    /\ UNCHANGED <<uiVars, handlerVars>>

\* cx.quit(): the application terminates; try_main returns Ok(()) and main
\* returns.
AppTerminate ==
    /\ processExit = None
    /\ quitCalls > 0
    /\ processExit' = Some(0)
    /\ mainPc' = "exited"
    /\ UNCHANGED <<subprocessCode, cefContext, shutdownCalls, browserState, windowOpen,
                   quitBound, quitPresses, loopQuit, quitCalls, cefBrowser>>
    /\ UNCHANGED <<uiVars, handlerVars>>

\* Start-up failed and the closure returned early: no window, no binding.
\* When the application's event loop ends, Application::run returns,
\* try_main returns Ok(()) and main returns without exit(1).
MainReturnsAfterFailure ==
    /\ mainPc = "init_failed"
    /\ processExit = None
    /\ processExit' = Some(0)
    /\ mainPc' = "exited"
    /\ UNCHANGED <<subprocessCode, cefContext, shutdownCalls, browserState, windowOpen,
                   quitBound, quitPresses, loopQuit, quitCalls, cefBrowser>>
    /\ UNCHANGED <<uiVars, handlerVars>>

\* ------------------------------------------------------ render handler
\* The engine can call the render handler: a browser was created with it,
\* the process lives and the main thread is in an event loop that runs the
\* engine's work (run_message_loop, or the application's loop after it).
EngineLive ==
    /\ processExit = None
    /\ cefBrowser # "none"
    /\ mainPc \in {"run_message_loop", "app_running"}

\* A paint delivery's byte length matches its dimensions.
WellFormed(c) == Len(c.buffer) = c.width * c.height * 4

\* on_paint with the clear() left out: the delivered bytes are appended to
\* the previous frame.
OnPaintClearKeepsOld ==
    /\ EngineLive
    /\ paintPc = "idle"
    /\ bufferLock = "free"
    /\ \E d \in PaintDims, fill \in 0..MaxFill, et \in ElementTypes, dr \in DirtyRectLists :
          \E len \in PaintLens(d[1], d[2]) :
             call' = [element_type |-> et, dirty_rects |-> dr,
                      buffer |-> MkFrame(len, fill), width |-> d[1], height |-> d[2]]
    /\ bufferLock' = "on_paint"
    /\ buffer' = buffer
    /\ paintPc' = "extend"
    /\ paintEntry' = Some([buffer |-> buffer, view_size |-> view_size,
                          closed |-> cefContext = "shutdown"])
    /\ UNCHANGED <<view_size, sizeLock, lastRect, mainVars, uiVars>>

\* on_paint, entry: self.buffer.lock().unwrap(); current_buffer.clear().
OnPaintClear ==
    /\ EngineLive
    /\ paintPc = "idle"
    /\ bufferLock = "free"
    /\ \E d \in PaintDims, fill \in 0..MaxFill, et \in ElementTypes, dr \in DirtyRectLists :
          \E len \in PaintLens(d[1], d[2]) :
             call' = [element_type |-> et, dirty_rects |-> dr,
                      buffer |-> MkFrame(len, fill), width |-> d[1], height |-> d[2]]
    /\ bufferLock' = "on_paint"
    /\ buffer' = <<>>
    /\ paintPc' = "extend"
    /\ paintEntry' = Some([buffer |-> buffer, view_size |-> view_size,
                          closed |-> cefContext = "shutdown"])
    /\ UNCHANGED <<view_size, sizeLock, lastRect, mainVars, uiVars>>

\* on_paint copying the delivered bytes over the previous frame in place:
\* what the previous frame had beyond the delivered length stays.
OnPaintExtendInPlace ==
    /\ paintPc = "extend"
    /\ buffer' = call.buffer \o SubSeq(paintEntry[1].buffer, Len(call.buffer) + 1,
                                       Len(paintEntry[1].buffer))
    /\ paintPc' = "lock_size"
    /\ UNCHANGED <<view_size, bufferLock, sizeLock, call, lastRect, paintEntry, mainVars,
                   uiVars>>

\* on_paint: current_buffer.extend_from_slice(buffer).
OnPaintExtend ==
    /\ paintPc = "extend"
    /\ buffer' = buffer \o call.buffer
    /\ paintPc' = "lock_size"
    /\ UNCHANGED <<view_size, bufferLock, sizeLock, call, lastRect, paintEntry, mainVars,
                   uiVars>>

\* on_paint taking the view_size lock but never writing the size.
OnPaintKeepsSize ==
    /\ paintPc = "lock_size"
    /\ sizeLock = "free"
    /\ sizeLock' = "on_paint"
    /\ view_size' = view_size
    /\ paintPc' = "return"
    /\ UNCHANGED <<buffer, bufferLock, call, lastRect, paintEntry, mainVars, uiVars>>

\* on_paint: self.view_size.lock().unwrap(); if the size differs from
\* (width as i32, height as i32), *current_size = that Size.
OnPaintUpdateSize ==
    /\ paintPc = "lock_size"
    /\ sizeLock = "free"
    /\ sizeLock' = "on_paint"
    /\ view_size' =
          IF view_size.width # AsI32(call.width) \/ view_size.height # AsI32(call.height)
            THEN Size(AsI32(call.width), AsI32(call.height))
            ELSE view_size
    /\ paintPc' = "return"
    /\ UNCHANGED <<buffer, bufferLock, call, lastRect, paintEntry, mainVars, uiVars>>

\* on_paint returning with the view_size guard leaked (never unlocked).
OnPaintReturnLeaksSizeLock ==
    /\ paintPc = "return"
    /\ sizeLock' = sizeLock
    /\ bufferLock' = "free"
    /\ call' = NoCall
    /\ paintPc' = "idle"
    /\ paintEntry' = None
    /\ UNCHANGED <<view_size, buffer, lastRect, mainVars, uiVars>>

\* on_paint, return: both guards are dropped.
OnPaintReturn ==
    /\ paintPc = "return"
    /\ sizeLock' = "free"
    /\ bufferLock' = "free"
    /\ call' = NoCall
    /\ paintPc' = "idle"
    /\ paintEntry' = None
    /\ UNCHANGED <<view_size, buffer, lastRect, mainVars, uiVars>>

\* on_accelerated_paint treated like a paint: it takes the stored frame away.
OnAcceleratedPaintClears ==
    /\ EngineLive
    /\ paintPc = "idle"
    /\ \E et \in ElementTypes, dr \in DirtyRectLists, sh \in SharedHandles :
          call' = [NoCall EXCEPT !.element_type = et, !.dirty_rects = dr]
    /\ paintPc' = "accelerated_paint"
    /\ paintEntry' = Some([buffer |-> buffer, view_size |-> view_size,
                          closed |-> cefContext = "shutdown"])
    /\ buffer' = <<>>
    /\ UNCHANGED <<view_size, bufferLock, sizeLock, lastRect, mainVars, uiVars>>

\* on_accelerated_paint(browser, element_type, dirty_rects, shared_handle):
\* the body is empty.
OnAcceleratedPaint ==
    /\ EngineLive
    /\ paintPc = "idle"
    /\ \E et \in ElementTypes, dr \in DirtyRectLists, sh \in SharedHandles :
          call' = [NoCall EXCEPT !.element_type = et, !.dirty_rects = dr]
    /\ paintPc' = "accelerated_paint"
    /\ paintEntry' = Some([buffer |-> buffer, view_size |-> view_size,
                          closed |-> cefContext = "shutdown"])
    /\ UNCHANGED <<view_size, buffer, bufferLock, sizeLock, lastRect, mainVars, uiVars>>

\* on_accelerated_paint returns.
OnAcceleratedPaintReturn ==
    /\ paintPc = "accelerated_paint"
    /\ call' = NoCall
    /\ paintPc' = "idle"
    /\ paintEntry' = None
    /\ UNCHANGED <<view_size, buffer, bufferLock, sizeLock, lastRect, mainVars, uiVars>>

\* get_view_rect: let size = *self.view_size.lock().unwrap();
\* Rect { x: 0, y: 0, width: size.width, height: size.height }.
GetViewRect ==
    /\ EngineLive
    /\ sizeLock = "free"
    /\ lastRect' = Some(Rect(0, 0, view_size.width, view_size.height))
    /\ UNCHANGED <<view_size, buffer, bufferLock, sizeLock, paintPc, call, paintEntry,
                   mainVars, uiVars>>

\* ------------------------------------------------------------------ UI
\* The observe_window_bounds callback: println!("Window bounds changed").
WindowBoundsChanged ==
    /\ processExit = None
    /\ windowOpen
    /\ \E s \in WindowSizes \cup {<<InitialWindowWidth, InitialWindowHeight>>} :
          /\ Some(Size(s[1], s[2])) # windowBounds
          /\ windowBounds' = Some(Size(s[1], s[2]))
    /\ boundsObserved' = TRUE
    /\ UNCHANGED <<displayed, mainVars, handlerVars>>

\* WindowDemo::render: the content area shows state.image if it is Some,
\* else the text "Loading...".
Render ==
    /\ processExit = None
    /\ windowOpen
    /\ displayed' = IF browserState.image # None THEN browserState.image
                                                ELSE Some("Loading...")
    /\ UNCHANGED <<windowBounds, boundsObserved, mainVars, handlerVars>>

Next ==
    \/ SetGlobal
    \/ InitializeCefSettings
    \/ ContextNew
    \/ IsCefSubprocess
    \/ ContextInitialize
    \/ CreateBrowser
    \/ StoreState
    \/ OpenWindow
    \/ RunMessageLoop
    \/ OnBeforeClose
    \/ BindQuit
    \/ QuitAction
    \/ QuitUnbound
    \/ AppTerminate
    \/ MainReturnsAfterFailure
    \/ OnPaintClear
    \/ OnPaintExtend
    \/ OnPaintUpdateSize
    \/ OnPaintReturn
    \/ OnAcceleratedPaint
    \/ OnAcceleratedPaintReturn
    \/ GetViewRect
    \/ WindowBoundsChanged
    \/ Render

Spec == Init /\ [][Next]_vars

\* ---------------------------------------------------------------- claims
\* The step on which the on_paint call in flight returns.
PaintReturns == paintPc = "return" /\ paintPc' = "idle"

\* C1: a paint delivery whose byte length differs from width*height*4 is
\* dropped: when on_paint returns, the stored buffer is what it was when
\* the call began.
C1_MalformedPaintDropped ==
    [][(PaintReturns /\ ~WellFormed(call)) => buffer' = paintEntry[1].buffer]_vars

\* C2: whenever a frame is stored and no writer holds the buffer lock, the
\* buffer's byte length equals view width * view height * 4.
C2_ReaderSeesConsistentFrame ==
    (bufferLock = "free" /\ buffer # <<>>)
        => Len(buffer) = view_size.width * view_size.height * 4

\* C3: when an on_paint whose buffer.len() = width*height*4 returns, the
\* stored frame is exactly the delivered bytes, has that byte length, the
\* view size is the supplied width and height, and both locks are free.
C3_WellFormedPaintPublished ==
    [][(PaintReturns /\ WellFormed(call)) =>
          /\ buffer' = call.buffer
          /\ Len(buffer') = call.width * call.height * 4
          /\ view_size' = Size(call.width, call.height)
          /\ bufferLock' = "free"
          /\ sizeLock' = "free"]_vars

\* C3 witness: a well-formed, non-empty delivery that replaced a non-empty
\* previous frame of other dimensions is about to return.
C3_Witness ==
    /\ paintPc = "return"
    /\ WellFormed(call)
    /\ call.buffer # <<>>
    /\ paintEntry[1].buffer # <<>>
    /\ paintEntry[1].view_size # view_size
    /\ buffer = call.buffer

\* C4: the frame store carries a generation counter that strictly increases
\* with every completed publish.  The store's fields are buffer and
\* view_size, so a counter carried by it can only rise if every completed
\* on_paint leaves the store in a state other than the one it found.
C4_PublishAdvancesStore ==
    [][PaintReturns =>
          <<buffer', view_size'>> # <<paintEntry[1].buffer, paintEntry[1].view_size>>]_vars

\* C5: once a paint has completed, a redraw shows a published frame, not
\* the "Loading..." placeholder.
C5_UiShowsPublishedFrame ==
    [][(Render /\ paintPc = "idle" /\ buffer # <<>>)
          => displayed' # Some("Loading...")]_vars

C7_SubprocessExitsFirst ==
    subprocessCode # None =>
        /\ cefContext \in {"none", "constructed"}
        /\ cefBrowser = "none"
        /\ browserState.browser = None
        /\ ~windowOpen
        /\ mainPc \notin {"initialize", "create_browser"}
        /\ (cefContext = "constructed" /\ mainPc # "subprocess_check") =>
              (mainPc = "exited" /\ processExit = subprocessCode)

\* C7 witness: a subprocess has exited with the engine's code 1.
C7_Witness ==
    /\ subprocessCode = Some(1)
    /\ mainPc = "exited"
    /\ processExit = Some(1)
    /\ cefContext = "constructed"

\* C8: after the UI has resized the window, a view-rect query answers
\* {0, 0, width, height} of the window's current bounds.
C8_ViewRectFollowsResize ==
    [][(GetViewRect /\ boundsObserved) =>
          lastRect' = Some(Rect(0, 0, windowBounds[1].width, windowBounds[1].height))]_vars

C10_ViewSizePositive == view_size.width > 0 /\ view_size.height > 0

\* C11: a paint delivery whose element kind is popup leaves the main view's
\* stored frame buffer and dimensions as they were when the call began.
C11_PopupPaintLeavesMainFrame ==
    [][(PaintReturns /\ call.element_type = "Popup") =>
          /\ buffer' = paintEntry[1].buffer
          /\ view_size' = paintEntry[1].view_size]_vars

\* C12: a paint delivery that arrives after the bridge is Closed (the
\* engine context has been shut down) changes neither the stored frame
\* buffer nor the view geometry.
C12_LatePaintIgnored ==
    [][(PaintReturns /\ paintEntry[1].closed) =>
          /\ buffer' = paintEntry[1].buffer
          /\ view_size' = paintEntry[1].view_size]_vars

\* Lifecycle stages in the order try_main goes through them.
ContextStage(c) ==
    CASE c = "none" -> 0 [] c = "constructed" -> 1 [] c = "initialized" -> 2
      [] c = "shutdown" -> 3

BrowserStage(b) == CASE b = "none" -> 0 [] b = "created" -> 1 [] b = "closed" -> 2

\* The main thread has reached the message loop: it is in it or past it.
LoopEntered == mainPc \in {"run_message_loop", "bind_quit", "app_running"} \/ loopQuit

\* C13: the engine context is initialized before the browser is created,
\* the browser is created before the message loop starts, the context is
\* shut down only after the message loop; every stage is entered at most
\* once (the context and the browser only move forward, the context is shut
\* down at most once, the message loop is not entered again once left).
C13_LifecycleOrdered ==
    [][/\ ContextStage(cefContext') >= ContextStage(cefContext)
       /\ BrowserStage(cefBrowser') >= BrowserStage(cefBrowser)
       /\ shutdownCalls' <= 1
       /\ cefBrowser' # "none" => ContextStage(cefContext') >= 2
       /\ LoopEntered' => cefBrowser' # "none"
       /\ cefContext' = "shutdown" => (LoopEntered' /\ mainPc' # "run_message_loop")
       /\ (mainPc # "run_message_loop" /\ LoopEntered) => mainPc' # "run_message_loop"
       /\ mainPc = "exited" => mainPc' = "exited"]_vars

\* C13 witness: every stage has been gone through: context shut down after
\* the browser closed and the message loop returned, the process ended.
C13_Witness ==
    /\ cefContext = "shutdown"
    /\ cefBrowser = "closed"
    /\ shutdownCalls = 1
    /\ mainPc = "exited"

\* C14: if engine context construction or browser creation fails, no window
\* is opened, the message loop is never run, and the process ends with a
\* non-zero exit status.
C14_StartupFailureExitsNonZero ==
    [][/\ mainPc' = "init_failed" => (~windowOpen' /\ ~LoopEntered')
       /\ (mainPc = "init_failed" /\ processExit' # None) => processExit' # Some(0)]_vars

\* The blocking run_message_loop call has returned.
LoopReturned == mainPc \in {"bind_quit", "app_running"} \/ (mainPc = "exited" /\ quitBound)

C16_QuitBoundWhileRunning ==
    (mainPc = "run_message_loop" /\ cefBrowser = "created") => quitBound

C18_PaintReplacesWholeFrame ==
    [][PaintReturns => (buffer' = call.buffer /\ Len(buffer') = Len(call.buffer))]_vars

\* C18 witness: a delivery with a dirty rectangle, shorter than the frame
\* it replaced, is about to return with exactly its bytes stored.
C18_Witness ==
    /\ paintPc = "return"
    /\ call.dirty_rects # <<>>
    /\ call.buffer # <<>>
    /\ Len(paintEntry[1].buffer) > Len(call.buffer)
    /\ buffer = call.buffer

\* C19: on_accelerated_paint is a no-op: from its entry to its return it
\* leaves the stored frame buffer, the view geometry and both locks as they
\* were, whatever its arguments.
C19_AcceleratedPaintIsNoOp ==
    [][(paintPc = "accelerated_paint" \/ paintPc' = "accelerated_paint") =>
          /\ UNCHANGED <<buffer, view_size, bufferLock, sizeLock>>
          /\ paintPc' = "accelerated_paint" => buffer' = paintEntry'[1].buffer
          /\ paintPc' = "idle" => (buffer' = paintEntry[1].buffer
                                    /\ view_size' = paintEntry[1].view_size)]_vars

\* C19 witness: on_accelerated_paint is running for a popup element while a
\* frame is stored, and the frame and geometry are those it found.
C19_Witness ==
    /\ paintPc = "accelerated_paint"
    /\ call.element_type = "Popup"
    /\ call.dirty_rects # <<>>
    /\ buffer # <<>>
    /\ buffer = paintEntry[1].buffer
    /\ view_size = paintEntry[1].view_size

====
